---------------------------- MODULE Spec2Model ----------------------------
(***************************************************************************)
(* A model of pep425 (src/pep425.py and src/pep425/_mac.py): PEP 425       *)
(* compatibility tags.  The library is a set of pure functions, so a state *)
(* of the model is one call: the operation, its arguments (for sys_tags,   *)
(* the host it runs on) and what the call returned or raised.              *)
(*                                                                         *)
(* A Python str is a sequence of one-character strings, so that lower(),   *)
(* split(), replace(), rindex() and formatting are computed, not assumed.  *)
(***************************************************************************)
EXTENDS Integers, Sequences, FiniteSets, TLC

VARIABLES op, args, ret

vars == <<op, args, ret>>

-----------------------------------------------------------------------------
(* Bounds of the input sets.                                               *)

MaxTagLen == 7

MaxPathLen == 8

MaxFieldLen == 1

MaxMacMinor == 7

MaxPyMinor == 4

MaxGenMinor == 7

MaxPlats == 2

-----------------------------------------------------------------------------
(* Python values: None, a returned value, a raised exception.              *)

None == <<"<None>">>

Ok(v) == [exc |-> "", val |-> v]

Raise(e) == [exc |-> e, val |-> <<>>]

-----------------------------------------------------------------------------
(* str methods.                                                            *)

UpperChars == <<"A","B","C","D","E","F","G","H","I","J","K","L","M",
                "N","O","P","Q","R","S","T","U","V","W","X","Y","Z">>

LowerChars == <<"a","b","c","d","e","f","g","h","i","j","k","l","m",
                "n","o","p","q","r","s","t","u","v","w","x","y","z">>

LowerChar(c) ==
    IF \E k \in 1..26 : UpperChars[k] = c
    THEN LowerChars[CHOOSE k \in 1..26 : UpperChars[k] = c]
    ELSE c

lower(s) == [k \in 1..Len(s) |-> LowerChar(s[k])]

Max(S) == CHOOSE x \in S : \A y \in S : y <= x

Min(S) == CHOOSE x \in S : \A y \in S : x <= y

\* s.find(c) for a one-character c, as a 1-based position; 0 when absent.
find(s, c) ==
    LET hits == {k \in 1..Len(s) : s[k] = c}
    IN  IF hits = {} THEN 0 ELSE Min(hits)

\* s.rfind(c) as Python's 0-based index; -1 when absent.
rfind(s, c) ==
    LET hits == {k \in 0..(Len(s) - 1) : s[k + 1] = c}
    IN  IF hits = {} THEN -1 ELSE Max(hits)

\* s.rindex(c, start, end) as Python's 0-based index; -1 stands for the
\* ValueError Python raises when c is not in s[start:end].
rindex(s, c, start, end) ==
    LET hits == {k \in start..(end - 1) : k < Len(s) /\ s[k + 1] = c}
    IN  IF hits = {} THEN -1 ELSE Max(hits)

\* s.split(c) for a one-character separator: always at least one piece.
RECURSIVE split(_, _)
split(s, c) ==
    LET k == find(s, c)
    IN  IF k = 0
        THEN <<s>>
        ELSE <<SubSeq(s, 1, k - 1)>> \o split(SubSeq(s, k + 1, Len(s)), c)

\* sep.join(pieces)
RECURSIVE join(_, _)
join(sep, pieces) ==
    IF Len(pieces) = 0 THEN <<>>
    ELSE IF Len(pieces) = 1 THEN pieces[1]
    ELSE pieces[1] \o sep \o join(sep, Tail(pieces))

\* os.path.splitext(p)[0] on a POSIX host (genericpath._splitext with
\* sep "/" and extsep "."): the extension starts at the last dot of the
\* last component, unless only dots precede it there.
splitext_root(p) ==
    LET sepIndex == rfind(p, "/")
        dotIndex == rfind(p, ".")
    IN  IF dotIndex > sepIndex
           /\ \E f \in (sepIndex + 1)..(dotIndex - 1) : p[f + 1] # "."
        THEN SubSeq(p, 1, dotIndex)
        ELSE p

-----------------------------------------------------------------------------
(* class Tag                                                               *)

\* Tag.__init__: the instance is its _tags triple, lowercased.
Tag(interpreter, abi, platform) ==
    <<lower(interpreter), lower(abi), lower(platform)>>

\* A mutation: the fields are joined with "." instead of "-".
Tag__str__dotted(self) == join(<<".">>, self)

\* Tag.__str__
Tag__str__(self) == join(<<"-">>, self)

-----------------------------------------------------------------------------
(* parse_tag, parse_wheel_tag                                              *)

\* A mutation: the three loops run in step (zip) instead of nested.
parse_tag_zipped(tag) ==
    LET parts == split(tag, "-")
    IN  IF Len(parts) # 3
        THEN Raise("ValueError")
        ELSE LET interpreters == split(parts[1], ".")
                 abis         == split(parts[2], ".")
                 platforms_   == split(parts[3], ".")
                 n == Min({Len(interpreters), Len(abis), Len(platforms_)})
             IN  Ok({Tag(interpreters[k], abis[k], platforms_[k]) : k \in 1..n})

\* A mutation: extra dash-separated segments are ignored instead of refused.
parse_tag_lenient(tag) ==
    LET parts == split(tag, "-")
    IN  IF Len(parts) < 3
        THEN Raise("ValueError")
        ELSE Ok({Tag(i, a, p) : i \in {split(parts[1], ".")[k] : k \in 1..Len(split(parts[1], "."))},
                                a \in {split(parts[2], ".")[k] : k \in 1..Len(split(parts[2], "."))},
                                p \in {split(parts[3], ".")[k] : k \in 1..Len(split(parts[3], "."))}})

parse_tag(tag) ==
    LET parts == split(tag, "-")
    IN  IF Len(parts) # 3
        THEN Raise("ValueError")
        ELSE LET interpreters == split(parts[1], ".")
                 abis         == split(parts[2], ".")
                 platforms_   == split(parts[3], ".")
             IN  Ok({Tag(interpreters[i], abis[a], platforms_[p]) :
                        i \in 1..Len(interpreters),
                        a \in 1..Len(abis),
                        p \in 1..Len(platforms_)})

\* The while loop of parse_wheel_tag: index after `parts` more rindex calls;
\* -1 when one of them raises ValueError.
RECURSIVE wheel_index(_, _, _)
wheel_index(name, parts, index) ==
    IF parts = 0
    THEN index
    ELSE LET found == rindex(name, "-", 0, index)
         IN  IF found = -1 THEN -1 ELSE wheel_index(name, parts - 1, found)

\* A mutation: the tag text is taken from the left, after the second dash.
parse_wheel_tag_from_left(path) ==
    LET name   == splitext_root(path)
        fields == split(name, "-")
    IN  IF Len(fields) < 5
        THEN Raise("ValueError")
        ELSE parse_tag(join(<<"-">>, SubSeq(fields, 3, Len(fields))))

parse_wheel_tag(path) ==
    LET name  == splitext_root(path)
        index == wheel_index(name, 3, Len(name))
    IN  IF index = -1
        THEN Raise("ValueError")
        ELSE parse_tag(SubSeq(name, index + 2, Len(name)))

-----------------------------------------------------------------------------
(* String literals of the source.                                          *)

S_x86_64 == <<"x","8","6","_","6","4">>

S_i386 == <<"i","3","8","6">>

S_ppc64 == <<"p","p","c","6","4">>

S_ppc == <<"p","p","c">>

S_arm64 == <<"a","r","m","6","4">>

S_PowerPC == <<"P","o","w","e","r","P","C">>

S_intel == <<"i","n","t","e","l">>

S_fat64 == <<"f","a","t","6","4">>

S_fat32 == <<"f","a","t","3","2">>

S_fat == <<"f","a","t">>

S_universal == <<"u","n","i","v","e","r","s","a","l">>

S_python == <<"p","y","t","h","o","n">>

S_cpython == <<"c","p","y","t","h","o","n">>

S_pypy == <<"p","y","p","y">>

S_ironpython == <<"i","r","o","n","p","y","t","h","o","n">>

S_jython == <<"j","y","t","h","o","n">>

S_py == <<"p","y">>

S_cp == <<"c","p">>

S_pp == <<"p","p">>

S_ip == <<"i","p">>

S_jy == <<"j","y">>

S_abi3 == <<"a","b","i","3">>

S_none == <<"n","o","n","e">>

S_any == <<"a","n","y">>

S_d == <<"d">>

S_m == <<"m">>

S_u == <<"u">>

S_linux == <<"l","i","n","u","x">>

S_linux_x86_64 == <<"l","i","n","u","x","_","x","8","6","_","6","4">>

S_linux_i686 == <<"l","i","n","u","x","_","i","6","8","6">>

S_manylinux2010 == <<"m","a","n","y","l","i","n","u","x","2","0","1","0">>

S_manylinux1 == <<"m","a","n","y","l","i","n","u","x","1">>

S__compatible == <<"_","c","o","m","p","a","t","i","b","l","e">>

S_Darwin == <<"D","a","r","w","i","n">>

S_Linux == <<"L","i","n","u","x">>

S_Windows == <<"W","i","n","d","o","w","s">>

S_macosx == <<"m","a","c","o","s","x">>

-----------------------------------------------------------------------------
(* Numbers and tuples.                                                     *)

DigitChars == <<"0","1","2","3","4","5","6","7","8","9">>

\* "{n}".format(n=n) for an int n
RECURSIVE Str(_)
Str(n) ==
    IF n < 0
    THEN <<"-">> \o Str(0 - n)
    ELSE IF n < 10
    THEN <<DigitChars[n + 1]>>
    ELSE Str(n \div 10) \o <<DigitChars[(n % 10) + 1]>>

\* The six ASCII characters int() skips at both ends of its argument:
\* space, \t, \n, \r, \f and the vertical tab (0x0B, written literally).
WhitespaceChars == {" ", "\t", "\n", "\r", "\f", ""}

\* The argument of int() without the whitespace at its ends.
RECURSIVE int_strip(_)
int_strip(s) ==
    IF Len(s) > 0 /\ s[1] \in WhitespaceChars
    THEN int_strip(Tail(s))
    ELSE IF Len(s) > 0 /\ s[Len(s)] \in WhitespaceChars
    THEN int_strip(SubSeq(s, 1, Len(s) - 1))
    ELSE s

IsDigit(c) == \E d \in 1..10 : DigitChars[d] = c

\* The stripped argument of int() without its sign.
int_digits(s) ==
    LET t == int_strip(s)
    IN  IF Len(t) > 0 /\ t[1] \in {"+", "-"} THEN Tail(t) ELSE t

\* int(s) does not raise ValueError: after stripping whitespace and one
\* optional sign, s is decimal digits with single underscores between them,
\* and no more than the 4300 digits an interpreter with the conversion limit
\* of Python 3.11 takes.
int_accepts(s) ==
    LET body == int_digits(s)
    IN  /\ Len(body) > 0
        /\ Cardinality({k \in 1..Len(body) : IsDigit(body[k])}) <= 4300
        /\ \A k \in 1..Len(body) : IsDigit(body[k]) \/ body[k] = "_"
        /\ IsDigit(body[1])
        /\ IsDigit(body[Len(body)])
        /\ \A k \in 1..(Len(body) - 1) : ~(body[k] = "_" /\ body[k + 1] = "_")

\* The value of a run of digits and underscores.
RECURSIVE int_value(_)
int_value(body) ==
    IF Len(body) = 0
    THEN 0
    ELSE IF body[Len(body)] = "_"
    THEN int_value(SubSeq(body, 1, Len(body) - 1))
    ELSE 10 * int_value(SubSeq(body, 1, Len(body) - 1))
         + (CHOOSE d \in 0..9 : DigitChars[d + 1] = body[Len(body)])

\* int(s) for a string int() accepts.
int(s) ==
    LET t == int_strip(s)
    IN  IF Len(t) > 0 /\ t[1] = "-"
        THEN 0 - int_value(int_digits(s))
        ELSE int_value(int_digits(s))

\* Python's ordering of tuples of ints: a < b
TupleLt(a, b) ==
    \/ \E k \in 1..Min({Len(a), Len(b)}) :
          /\ a[k] < b[k]
          /\ \A j \in 1..(k - 1) : a[j] = b[j]
    \/ /\ Len(a) < Len(b)
       /\ \A j \in 1..Len(a) : a[j] = b[j]

TupleLe(a, b) == a = b \/ TupleLt(a, b)

startswith(s, prefix) ==
    /\ Len(prefix) <= Len(s)
    /\ SubSeq(s, 1, Len(prefix)) = prefix

-----------------------------------------------------------------------------
(* macOS platforms: pep425.py                                              *)

\* No version argument given (version=None).
NoVersion == <<>>

_mac_arch(arch, is_32bit) ==
    IF is_32bit
    THEN IF startswith(arch, S_ppc) THEN S_ppc ELSE S_i386
    ELSE arch

\* A mutation: ppc is cut off one release early (version < (10, 6)).
_mac_binary_formats_ppc_lt(version, cpu_arch) ==
    LET formats == <<cpu_arch>>
    IN  IF cpu_arch = S_x86_64
        THEN IF TupleLe(<<10, 4>>, version)
             THEN formats \o <<S_intel, S_fat64, S_fat32>> \o <<S_universal>>
             ELSE <<>>
        ELSE IF cpu_arch = S_i386
        THEN IF TupleLe(<<10, 4>>, version)
             THEN formats \o <<S_intel, S_fat32, S_fat>> \o <<S_universal>>
             ELSE <<>>
        ELSE IF cpu_arch = S_ppc64
        THEN IF TupleLt(<<10, 5>>, version) \/ TupleLt(version, <<10, 4>>)
             THEN <<>>
             ELSE formats \o <<S_fat64>> \o <<S_universal>>
        ELSE IF cpu_arch = S_ppc
        THEN IF TupleLt(version, <<10, 6>>)
             THEN formats \o <<S_fat32, S_fat>> \o <<S_universal>>
             ELSE <<>>
        ELSE formats \o <<S_universal>>

_mac_binary_formats(version, cpu_arch) ==
    LET formats == <<cpu_arch>>
    IN  IF cpu_arch = S_x86_64
        THEN IF TupleLe(<<10, 4>>, version)
             THEN formats \o <<S_intel, S_fat64, S_fat32>> \o <<S_universal>>
             ELSE <<>>
        ELSE IF cpu_arch = S_i386
        THEN IF TupleLe(<<10, 4>>, version)
             THEN formats \o <<S_intel, S_fat32, S_fat>> \o <<S_universal>>
             ELSE <<>>
        ELSE IF cpu_arch = S_ppc64
        THEN IF TupleLt(<<10, 5>>, version) \/ TupleLt(version, <<10, 4>>)
             THEN <<>>
             ELSE formats \o <<S_fat64>> \o <<S_universal>>
        ELSE IF cpu_arch = S_ppc
        THEN IF TupleLe(version, <<10, 6>>)
             THEN formats \o <<S_fat32, S_fat>> \o <<S_universal>>
             ELSE <<>>
        ELSE formats \o <<S_universal>>

\* "macosx_{major}_{minor}_{binary_format}".format(...)
macosx_format(major, minor, binary_format) ==
    S_macosx \o <<"_">> \o Str(major) \o <<"_">> \o Str(minor) \o <<"_">> \o binary_format

\* tuple(map(int, version_str.split(".")[:2])); Raise when int() raises.
mac_ver_version(version_str) ==
    LET pieces == split(version_str, ".")
        first2 == SubSeq(pieces, 1, Min({2, Len(pieces)}))
    IN  IF \E k \in 1..Len(first2) : ~int_accepts(first2[k])
        THEN Raise("ValueError")
        ELSE Ok([k \in 1..Len(first2) |-> int(first2[k])])

\* A mutation: the loop runs upward (range(0, version[1] + 1)), oldest
\* release first.
RECURSIVE _mac_platforms_loop_ascending(_, _, _)
_mac_platforms_loop_ascending(major, minor_version, formats_arch) ==
    IF minor_version < 0
    THEN <<>>
    ELSE LET compat_version == <<major, minor_version>>
             binary_formats_ == _mac_binary_formats(compat_version, formats_arch)
         IN  _mac_platforms_loop_ascending(major, minor_version - 1, formats_arch)
             \o [k \in 1..Len(binary_formats_) |->
                    macosx_format(compat_version[1], compat_version[2], binary_formats_[k])]

\* The for loop of _mac_platforms from minor_version down to 0, with the
\* binary formats of `formats_arch`.
RECURSIVE _mac_platforms_loop(_, _, _)
_mac_platforms_loop(major, minor_version, formats_arch) ==
    IF minor_version < 0
    THEN <<>>
    ELSE LET compat_version == <<major, minor_version>>
             binary_formats_ == _mac_binary_formats(compat_version, formats_arch)
         IN  [k \in 1..Len(binary_formats_) |->
                 macosx_format(compat_version[1], compat_version[2], binary_formats_[k])]
             \o _mac_platforms_loop(major, minor_version - 1, formats_arch)

\* A mutation: the loop starts one release below the given one
\* (range(version[1] - 1, -1, -1)).
_mac_platforms_skip_current(version, arch, mac_ver, is_32bit) ==
    LET version_str == mac_ver[1]
        cpu_arch    == mac_ver[2]
        detected    == mac_ver_version(version_str)
        arch_       == IF arch = None THEN _mac_arch(cpu_arch, is_32bit) ELSE arch
    IN  IF version = NoVersion /\ detected.exc # ""
        THEN detected
        ELSE LET version_ == IF version = NoVersion THEN detected.val ELSE version
             IN  IF Len(version_) < 2
                 THEN Raise("IndexError")
                 ELSE Ok(_mac_platforms_loop(version_[1], version_[2] - 1, arch_))

\* _mac_platforms(version, arch) on a host where platform.mac_ver() returns
\* (mac_ver[1], _, mac_ver[2]) and _32_BIT_INTERPRETER is is_32bit.
_mac_platforms(version, arch, mac_ver, is_32bit) ==
    LET version_str == mac_ver[1]
        cpu_arch    == mac_ver[2]
        detected    == mac_ver_version(version_str)
        arch_       == IF arch = None THEN _mac_arch(cpu_arch, is_32bit) ELSE arch
    IN  IF version = NoVersion /\ detected.exc # ""
        THEN detected
        ELSE LET version_ == IF version = NoVersion THEN detected.val ELSE version
             IN  IF Len(version_) < 2
                 THEN Raise("IndexError")
                 ELSE Ok(_mac_platforms_loop(version_[1], version_[2], arch_))

-----------------------------------------------------------------------------
(* macOS platforms: pep425/_mac.py                                         *)

architecture(arch, is_32bit) ==
    IF is_32bit
    THEN IF startswith(arch, S_ppc) THEN S_ppc ELSE S_i386
    ELSE arch

binary_formats(version, cpu_arch) ==
    LET formats == <<cpu_arch>>
    IN  IF cpu_arch = S_x86_64
        THEN IF TupleLe(<<10, 4>>, version)
             THEN formats \o <<S_intel, S_fat64, S_fat32>> \o <<S_universal>>
             ELSE <<>>
        ELSE IF cpu_arch = S_i386
        THEN IF TupleLe(<<10, 4>>, version)
             THEN formats \o <<S_intel, S_fat32, S_fat>> \o <<S_universal>>
             ELSE <<>>
        ELSE IF cpu_arch = S_ppc64
        THEN IF TupleLt(<<10, 5>>, version) \/ TupleLt(version, <<10, 4>>)
             THEN <<>>
             ELSE formats \o <<S_fat64>> \o <<S_universal>>
        ELSE IF cpu_arch = S_ppc
        THEN IF TupleLe(version, <<10, 6>>)
             THEN formats \o <<S_fat32, S_fat>> \o <<S_universal>>
             ELSE <<>>
        ELSE formats \o <<S_universal>>

\* The for loop of platforms(): the formats are those of cpu_arch, the
\* architecture platform.mac_ver() reports (line 57), not of arch.
RECURSIVE platforms_loop(_, _, _)
platforms_loop(major, minor_version, cpu_arch) ==
    IF minor_version < 0
    THEN <<>>
    ELSE LET compat_version == <<major, minor_version>>
             bin_formats    == binary_formats(compat_version, cpu_arch)
         IN  [k \in 1..Len(bin_formats) |->
                 macosx_format(compat_version[1], compat_version[2], bin_formats[k])]
             \o platforms_loop(major, minor_version - 1, cpu_arch)

platforms(version, arch, mac_ver, is_32bit) ==
    LET version_str == mac_ver[1]
        cpu_arch    == mac_ver[2]
        detected    == mac_ver_version(version_str)
        arch_       == IF arch = None THEN architecture(cpu_arch, is_32bit) ELSE arch
    IN  IF version = NoVersion /\ detected.exc # ""
        THEN detected
        ELSE LET version_ == IF version = NoVersion THEN detected.val ELSE version
             IN  IF Len(version_) < 2
                 THEN Raise("IndexError")
                 ELSE Ok(platforms_loop(version_[1], version_[2], cpu_arch))

-----------------------------------------------------------------------------
(* Interpreter names, ABIs and tag generators.                             *)

\* string.replace(old, new) for one-character old and new
replace_char(string, old, new) ==
    [k \in 1..Len(string) |-> IF string[k] = old THEN new ELSE string[k]]

\* string.replace(old, new) for a non-empty old: every occurrence, left to
\* right, without overlap.
RECURSIVE replace(_, _, _)
replace(string, old, new) ==
    IF Len(string) < Len(old)
    THEN string
    ELSE IF startswith(string, old)
    THEN new \o replace(SubSeq(string, Len(old) + 1, Len(string)), old, new)
    ELSE <<string[1]>> \o replace(Tail(string), old, new)

\* s.split(c, maxsplit)
RECURSIVE split_max(_, _, _)
split_max(s, c, maxsplit) ==
    LET k == find(s, c)
    IN  IF k = 0 \/ maxsplit = 0
        THEN <<s>>
        ELSE <<SubSeq(s, 1, k - 1)>>
             \o split_max(SubSeq(s, k + 1, Len(s)), c, maxsplit - 1)

INTERPRETER_SHORT_NAMES(name) ==
    CASE name = S_python     -> S_py
      [] name = S_cpython    -> S_cp
      [] name = S_pypy       -> S_pp
      [] name = S_ironpython -> S_ip
      [] name = S_jython     -> S_jy
      [] OTHER               -> None

_normalize_string(string) ==
    replace_char(replace_char(string, ".", "_"), "-", "_")

_cpython_interpreter(py_version) ==
    S_cp \o Str(py_version[1]) \o Str(py_version[2])

\* A mutation: without SOABI, the pymalloc letter is appended before the
\* debug letter.
_cpython_abi_malloc_first(py_version, config) ==
    LET soabi == config.SOABI
    IN  IF soabi # None /\ soabi # <<>>
        THEN LET pieces == split_max(soabi, "-", 2)
             IN  IF Len(pieces) # 3
                 THEN Raise("ValueError")
                 ELSE Ok(S_cp \o pieces[2])
        ELSE LET found_options ==
                     Str(py_version[1]) \o Str(py_version[2])
                     \o (IF config.WITH_PYMALLOC # 0 THEN S_m ELSE <<>>)
                     \o (IF config.Py_DEBUG # 0 THEN S_d ELSE <<>>)
                     \o (IF config.Py_UNICODE_SIZE = 4 THEN S_u ELSE <<>>)
             IN  Ok(S_cp \o found_options)

\* config: the sysconfig variables of the host.  SOABI is None when unset;
\* the flags are ints, 0 standing for both 0 and unset.
_cpython_abi(py_version, config) ==
    LET soabi == config.SOABI
    IN  IF soabi # None /\ soabi # <<>>
        THEN LET pieces == split_max(soabi, "-", 2)
             IN  IF Len(pieces) # 3
                 THEN Raise("ValueError")
                 ELSE Ok(S_cp \o pieces[2])
        ELSE LET found_options ==
                     Str(py_version[1]) \o Str(py_version[2])
                     \o (IF config.Py_DEBUG # 0 THEN S_d ELSE <<>>)
                     \o (IF config.WITH_PYMALLOC # 0 THEN S_m ELSE <<>>)
                     \o (IF config.Py_UNICODE_SIZE = 4 THEN S_u ELSE <<>>)
             IN  Ok(S_cp \o found_options)

\* [Tag(interpreter, abi, platform) for platform in platforms]
tags_for(interpreter, abi, plats) ==
    [k \in 1..Len(plats) |-> Tag(interpreter, abi, plats[k])]

\* The loop of _cpython_tags over range(minor_version, 1, -1).
RECURSIVE _cpython_abi3_loop(_, _, _)
_cpython_abi3_loop(major, minor_version, plats) ==
    IF minor_version <= 1
    THEN <<>>
    ELSE tags_for(S_cp \o Str(major) \o Str(minor_version), S_abi3, plats)
         \o _cpython_abi3_loop(major, minor_version - 1, plats)

\* A mutation: the "none" block is yielded before the "abi3" block.
_cpython_tags_none_before_abi3(py_version, interpreter, abi, plats) ==
    tags_for(interpreter, abi, plats)
    \o tags_for(interpreter, S_none, plats)
    \o tags_for(interpreter, S_abi3, plats)
    \o _cpython_abi3_loop(py_version[1], py_version[2] - 1, plats)

\* list(_cpython_tags(py_version, interpreter, abi, platforms))
_cpython_tags(py_version, interpreter, abi, plats) ==
    tags_for(interpreter, abi, plats)
    \o tags_for(interpreter, S_abi3, plats)
    \o tags_for(interpreter, S_none, plats)
    \o _cpython_abi3_loop(py_version[1], py_version[2] - 1, plats)

\* sys.version_info[0] and sys.pypy_version_info of the host
_pypy_interpreter(py_major, pypy_version_info) ==
    S_pp \o Str(py_major) \o Str(pypy_version_info[1]) \o Str(pypy_version_info[2])

_generic_abi(config) ==
    LET abi == config.SOABI
    IN  IF abi # None /\ abi # <<>>
        THEN _normalize_string(abi)
        ELSE S_none

\* list(_pypy_tags(py_version, interpreter, abi, platforms))
_pypy_tags(py_version, interpreter, abi, plats) ==
    tags_for(interpreter, abi, plats)
    \o tags_for(interpreter, S_none, plats)

\* list(_generic_tags(interpreter, py_version, abi, platforms))
_generic_tags(interpreter, py_version, abi, plats) ==
    tags_for(interpreter, abi, plats)
    \o (IF abi # S_none THEN tags_for(interpreter, S_none, plats) ELSE <<>>)

\* The loop of _py_interpreter_range over range(minor, -1, -1).
RECURSIVE _py_minor_loop(_, _)
_py_minor_loop(major, minor) ==
    IF minor < 0
    THEN <<>>
    ELSE <<S_py \o Str(major) \o Str(minor)>> \o _py_minor_loop(major, minor - 1)

\* A mutation: the loop stops at minor 1 (range(minor - 1, 0, -1)).
_py_interpreter_range_stop_at_1(py_version) ==
    <<S_py \o Str(py_version[1]) \o Str(py_version[2])>>
    \o <<S_py \o Str(py_version[1])>>
    \o SubSeq(_py_minor_loop(py_version[1], py_version[2] - 1), 1, py_version[2] - 1)

\* list(_py_interpreter_range(py_version))
_py_interpreter_range(py_version) ==
    <<S_py \o Str(py_version[1]) \o Str(py_version[2])>>
    \o <<S_py \o Str(py_version[1])>>
    \o _py_minor_loop(py_version[1], py_version[2] - 1)

\* The first loop of _independent_tags, from the k-th version on.
RECURSIVE _independent_platform_loop(_, _, _)
_independent_platform_loop(versions, k, plats) ==
    IF k > Len(versions)
    THEN <<>>
    ELSE tags_for(versions[k], S_none, plats)
         \o _independent_platform_loop(versions, k + 1, plats)

\* A mutation: Tag(interpreter, "none", "any") is yielded last.
_independent_tags_interpreter_last(interpreter, py_version, plats) ==
    LET versions == _py_interpreter_range(py_version)
    IN  _independent_platform_loop(versions, 1, plats)
        \o [k \in 1..Len(versions) |-> Tag(versions[k], S_none, S_any)]
        \o <<Tag(interpreter, S_none, S_any)>>

\* list(_independent_tags(interpreter, py_version, platforms))
_independent_tags(interpreter, py_version, plats) ==
    LET versions == _py_interpreter_range(py_version)
    IN  _independent_platform_loop(versions, 1, plats)
        \o <<Tag(interpreter, S_none, S_any)>>
        \o [k \in 1..Len(versions) |-> Tag(versions[k], S_none, S_any)]

-----------------------------------------------------------------------------
(* Linux and generic platforms.                                            *)

\* No _manylinux module can be imported.
NoModule == [present |-> FALSE, attrs |-> <<>>]

\* glibc: what gnu_get_libc_version() returns on the host, None when the
\* process is not linked to glibc.
_have_compatible_glibc(major, minimum_minor, glibc) ==
    IF glibc = None
    THEN Ok(FALSE)
    ELSE LET pieces == split(glibc, ".")
         IN  IF \E k \in 1..Len(pieces) : ~int_accepts(pieces[k])
             THEN Raise("ValueError")
             ELSE IF Len(pieces) # 2
             THEN Raise("AssertionError")
             ELSE LET version == [k \in 1..2 |-> int(pieces[k])]
                  IN  IF major # version[1]
                      THEN Ok(FALSE)
                      ELSE IF minimum_minor > version[2]
                      THEN Ok(FALSE)
                      ELSE Ok(TRUE)

\* manylinux: the _manylinux module of the host; attrs maps the names of
\* its attributes to their truth values.
_is_manylinux_compatible(name, glibc_version, manylinux, glibc) ==
    IF manylinux.present /\ (name \o S__compatible) \in DOMAIN manylinux.attrs
    THEN Ok(manylinux.attrs[name \o S__compatible])
    ELSE _have_compatible_glibc(glibc_version[1], glibc_version[2], glibc)

manylinux_support ==
    <<(<<S_manylinux2010, (<<2, 12>>)>>), (<<S_manylinux1, (<<2, 5>>)>>)>>

\* The for loop of _linux_platforms from the k-th tier on, then the list
\* comprehension over what is left of the iterator.
RECURSIVE _linux_tiers(_, _, _, _)
_linux_tiers(linux, k, manylinux, glibc) ==
    IF k > Len(manylinux_support)
    THEN Ok(<<>>)
    ELSE LET name == manylinux_support[k][1]
             compatible == _is_manylinux_compatible(name, manylinux_support[k][2],
                                                    manylinux, glibc)
         IN  IF compatible.exc # ""
             THEN compatible
             ELSE IF compatible.val
             THEN Ok(<<replace(linux, S_linux, name)>>
                     \o [j \in 1..(Len(manylinux_support) - k) |->
                            replace(linux, S_linux, manylinux_support[k + j][1])])
             ELSE _linux_tiers(linux, k + 1, manylinux, glibc)

\* A mutation: a 32-bit interpreter on linux_x86_64 is not rewritten to
\* linux_i686.
_linux_platforms_no_rewrite(is_32bit, get_platform, manylinux, glibc) ==
    LET linux == _normalize_string(get_platform)
        tiers == _linux_tiers(linux, 1, manylinux, glibc)
    IN  IF tiers.exc # ""
        THEN tiers
        ELSE Ok(tiers.val \o <<linux>>)

\* get_platform: what distutils.util.get_platform() returns on the host.
_linux_platforms(is_32bit, get_platform, manylinux, glibc) ==
    LET normalized == _normalize_string(get_platform)
        linux == IF normalized = S_linux_x86_64 /\ is_32bit
                 THEN S_linux_i686
                 ELSE normalized
        tiers == _linux_tiers(linux, 1, manylinux, glibc)
    IN  IF tiers.exc # ""
        THEN tiers
        ELSE Ok(tiers.val \o <<linux>>)

_generic_platforms(get_platform) == <<_normalize_string(get_platform)>>

\* python_implementation: what platform.python_implementation() returns.
_interpreter_name(python_implementation) ==
    LET name == lower(python_implementation)
    IN  IF INTERPRETER_SHORT_NAMES(name) # None
        THEN INTERPRETER_SHORT_NAMES(name)
        ELSE name

\* "".join(py_version[:2]) raises TypeError: the items are ints.
_generic_interpreter(name, py_version, config) ==
    LET version == config.py_version_nodot
    IN  IF version = None \/ version = <<>>
        THEN Raise("TypeError")
        ELSE Ok(name \o version)

-----------------------------------------------------------------------------
(* sys_tags                                                                *)

\* The platforms of the host, by platform.system().
sys_platforms(host) ==
    IF host.system = S_Darwin
    THEN _mac_platforms(NoVersion, None, host.mac_ver, host.is_32bit)
    ELSE IF host.system = S_Linux
    THEN _linux_platforms(host.is_32bit, host.get_platform, host.manylinux, host.glibc)
    ELSE Ok(_generic_platforms(host.get_platform))

\* A mutation: no branch for "pp"; PyPy is handled as a generic interpreter.
sys_tags_without_pypy(host) ==
    LET py_version == host.version_info
        interpreter_name == _interpreter_name(host.python_implementation)
        plats == sys_platforms(host)
    IN  IF plats.exc # ""
        THEN plats
        ELSE IF interpreter_name = S_cp
        THEN LET interpreter == _cpython_interpreter(py_version)
                 abi == _cpython_abi(py_version, host.config)
             IN  IF abi.exc # ""
                 THEN abi
                 ELSE Ok(_cpython_tags(py_version, interpreter, abi.val, plats.val)
                         \o _independent_tags(interpreter, py_version, plats.val))
        ELSE LET interpreter == _generic_interpreter(interpreter_name, py_version, host.config)
                 abi == _generic_abi(host.config)
             IN  IF interpreter.exc # ""
                 THEN interpreter
                 ELSE Ok(_generic_tags(interpreter.val, py_version, abi, plats.val)
                         \o _independent_tags(interpreter.val, py_version, plats.val))

\* list(sys_tags()) on a host.  Everything that can raise runs before the
\* first yield, so the call either raises or yields the whole sequence.
sys_tags(host) ==
    LET py_version == host.version_info
        interpreter_name == _interpreter_name(host.python_implementation)
        plats == sys_platforms(host)
    IN  IF plats.exc # ""
        THEN plats
        ELSE IF interpreter_name = S_cp
        THEN LET interpreter == _cpython_interpreter(py_version)
                 abi == _cpython_abi(py_version, host.config)
             IN  IF abi.exc # ""
                 THEN abi
                 ELSE Ok(_cpython_tags(py_version, interpreter, abi.val, plats.val)
                         \o _independent_tags(interpreter, py_version, plats.val))
        ELSE IF interpreter_name = S_pp
        THEN LET interpreter == _pypy_interpreter(py_version[1], host.pypy_version_info)
                 abi == _generic_abi(host.config)
             IN  Ok(_pypy_tags(py_version, interpreter, abi, plats.val)
                    \o _independent_tags(interpreter, py_version, plats.val))
        ELSE LET interpreter == _generic_interpreter(interpreter_name, py_version, host.config)
                 abi == _generic_abi(host.config)
             IN  IF interpreter.exc # ""
                 THEN interpreter
                 ELSE Ok(_generic_tags(interpreter.val, py_version, abi, plats.val)
                         \o _independent_tags(interpreter.val, py_version, plats.val))

-----------------------------------------------------------------------------
(* Input sets.                                                             *)

Strs(alphabet, n) == UNION {[1..k -> alphabet] : k \in 0..n}

TagAlphabet == {"a", "B", "-", "."}

PathAlphabet == {"a", "-", ".", "/"}

TagTexts == Strs(TagAlphabet, MaxTagLen)

Paths == Strs(PathAlphabet, MaxPathLen)

Fields == Strs(TagAlphabet, MaxFieldLen)

MacMajors == {9, 10, 11}

MacVersions == {<<major, minor>> : major \in MacMajors, minor \in 0..MaxMacMinor}

Archs == {S_x86_64, S_i386, S_ppc64, S_ppc, S_arm64}

\* What platform.mac_ver() reports as (release, machine): empty off macOS.
MacVers == {<<(<<>>), (<<>>)>>,
            <<(<<"1","0",".","5",".","8">>), S_x86_64>>,
            <<(<<"1","0",".","3">>), S_i386>>,
            <<(<<"1","0",".","6",".","2">>), S_PowerPC>>}

PyVersions == {<<major, minor>> : major \in {2, 3}, minor \in 0..MaxPyMinor}

\* The interpreter side of a host: platform.python_implementation(),
\* sys.pypy_version_info (PyPy only) and the sysconfig variables SOABI,
\* Py_DEBUG, WITH_PYMALLOC and Py_UNICODE_SIZE.
Interpreters ==
    {[python_implementation |-> <<"C","P","y","t","h","o","n">>, pypy_version_info |-> <<>>,
      SOABI |-> soabi, Py_DEBUG |-> 0, WITH_PYMALLOC |-> 1, Py_UNICODE_SIZE |-> 2] :
        soabi \in {<<"c","p","y","t","h","o","n","-","3","3","m","-","d","a","r","w","i","n">>,
                   <<"c","p","y","t","h","o","n","-","3","3","m">>}}
    \cup
    {[python_implementation |-> <<"C","P","y","t","h","o","n">>, pypy_version_info |-> <<>>,
      SOABI |-> None, Py_DEBUG |-> f[1], WITH_PYMALLOC |-> f[2], Py_UNICODE_SIZE |-> f[3]] :
        f \in {<<0, 0, 2>>, <<0, 1, 4>>, <<1, 1, 2>>}}
    \cup
    {[python_implementation |-> <<"P","y","P","y">>, pypy_version_info |-> <<6, 0>>,
      SOABI |-> soabi, Py_DEBUG |-> 0, WITH_PYMALLOC |-> 0, Py_UNICODE_SIZE |-> 4] :
        soabi \in {None, <<"p","y","p","y","3","-","6","0">>}}
    \cup
    {[python_implementation |-> <<"J","y","t","h","o","n">>, pypy_version_info |-> <<>>,
      SOABI |-> None, Py_DEBUG |-> 0, WITH_PYMALLOC |-> 0, Py_UNICODE_SIZE |-> 2]}
    \cup
    {[python_implementation |-> <<"G","r","a","a","l","V","M">>, pypy_version_info |-> <<>>,
      SOABI |-> <<"g","r","a","a","l","p","y","-","3","8","-","n","a","t","i","v","e">>, Py_DEBUG |-> 0, WITH_PYMALLOC |-> 0, Py_UNICODE_SIZE |-> 4]}

\* The operating-system side of a host: platform.system(),
\* platform.mac_ver(), distutils.util.get_platform(), _32_BIT_INTERPRETER,
\* the _manylinux module and the glibc version.  What a system does not
\* read is left empty.
Systems ==
    {[system |-> S_Darwin, mac_ver |-> mv, get_platform |-> <<>>, is_32bit |-> b,
      manylinux |-> NoModule, glibc |-> None] :
        mv \in MacVers \ {<<(<<>>), (<<>>)>>}, b \in BOOLEAN}
    \cup
    {[system |-> S_Linux, mac_ver |-> <<(<<>>), (<<>>)>>, get_platform |-> gp, is_32bit |-> b,
      manylinux |-> ml, glibc |-> g] :
        gp \in {<<"l","i","n","u","x","-","x","8","6","_","6","4">>,
                <<"l","i","n","u","x","-","i","6","8","6">>},
        b \in BOOLEAN,
        ml \in {NoModule,
                [present |-> TRUE,
                 attrs |-> [a \in {S_manylinux2010 \o S__compatible} |-> FALSE]]},
        g \in {None, <<"2",".","5">>, <<"2",".","1","7">>}}
    \cup
    {[system |-> S_Windows, mac_ver |-> <<(<<>>), (<<>>)>>, get_platform |-> gp, is_32bit |-> FALSE,
      manylinux |-> NoModule, glibc |-> None] :
        gp \in {<<"w","i","n","-","a","m","d","6","4">>, <<"w","i","n","3","2">>}}

\* A host: sysconfig's py_version_nodot is always set, to the digits of
\* the running version.
Host(interp, system, version) ==
    [python_implementation |-> interp.python_implementation,
     version_info          |-> version,
     pypy_version_info     |-> interp.pypy_version_info,
     config                |-> [SOABI            |-> interp.SOABI,
                                Py_DEBUG         |-> interp.Py_DEBUG,
                                WITH_PYMALLOC    |-> interp.WITH_PYMALLOC,
                                Py_UNICODE_SIZE  |-> interp.Py_UNICODE_SIZE,
                                py_version_nodot |-> Str(version[1]) \o Str(version[2])],
     system                |-> system.system,
     mac_ver               |-> system.mac_ver,
     get_platform          |-> system.get_platform,
     is_32bit              |-> system.is_32bit,
     manylinux             |-> system.manylinux,
     glibc                 |-> system.glibc]

Hosts == {Host(i, o, v) : i \in Interpreters, o \in Systems, v \in PyVersions}

-----------------------------------------------------------------------------
(* The calls.  Each behaviour is one call of the library from a fresh      *)
(* process: an operation is applied to inputs drawn from the sets above.   *)

Init ==
    /\ op = "init"
    /\ args = <<>>
    /\ ret = <<>>

ParseTagCall ==
    /\ op = "init"
    /\ \E tag \in TagTexts :
        /\ op' = "parse_tag"
        /\ args' = [tag |-> tag]
        /\ ret' = parse_tag(tag)

ParseWheelTagCall ==
    /\ op = "init"
    /\ \E path \in Paths :
        /\ op' = "parse_wheel_tag"
        /\ args' = [path |-> path]
        /\ ret' = parse_wheel_tag(path)

\* parse_tag(str(Tag(interpreter, abi, platform)))
TagStrParseCall ==
    /\ op = "init"
    /\ \E i \in Fields, a \in Fields, p \in Fields :
        /\ op' = "parse_tag(str(Tag))"
        /\ args' = [interpreter |-> i, abi |-> a, platform |-> p]
        /\ ret' = parse_tag(Tag__str__(Tag(i, a, p)))

NextParse == ParseTagCall \/ ParseWheelTagCall \/ TagStrParseCall

SpecParse == Init /\ [][NextParse]_vars

MacBinaryFormatsCall ==
    /\ op = "init"
    /\ \E version \in MacVersions, cpu_arch \in Archs :
        /\ op' = "_mac_binary_formats"
        /\ args' = [version |-> version, cpu_arch |-> cpu_arch]
        /\ ret' = Ok(_mac_binary_formats(version, cpu_arch))

ModBinaryFormatsCall ==
    /\ op = "init"
    /\ \E version \in MacVersions, cpu_arch \in Archs :
        /\ op' = "binary_formats"
        /\ args' = [version |-> version, cpu_arch |-> cpu_arch]
        /\ ret' = Ok(binary_formats(version, cpu_arch))

MacPlatformsCall ==
    /\ op = "init"
    /\ \E version \in MacVersions \cup {NoVersion}, arch \in Archs \cup {None},
          mac_ver \in MacVers, is_32bit \in BOOLEAN :
        /\ op' = "_mac_platforms"
        /\ args' = [version |-> version, arch |-> arch,
                    mac_ver |-> mac_ver, is_32bit |-> is_32bit]
        /\ ret' = _mac_platforms(version, arch, mac_ver, is_32bit)

ModPlatformsCall ==
    /\ op = "init"
    /\ \E version \in MacVersions \cup {NoVersion}, arch \in Archs \cup {None},
          mac_ver \in MacVers, is_32bit \in BOOLEAN :
        /\ op' = "platforms"
        /\ args' = [version |-> version, arch |-> arch,
                    mac_ver |-> mac_ver, is_32bit |-> is_32bit]
        /\ ret' = platforms(version, arch, mac_ver, is_32bit)

\* _mac_platforms(version, arch) for a release and for the next minor
\* release of the same major, on the same host.
MacPlatformsStepCall ==
    /\ op = "init"
    /\ \E version \in MacVersions, arch \in Archs \cup {None},
          mac_ver \in MacVers, is_32bit \in BOOLEAN :
        /\ op' = "_mac_platforms,_mac_platforms"
        /\ args' = [version |-> version, next_version |-> <<version[1], version[2] + 1>>,
                    arch |-> arch, mac_ver |-> mac_ver, is_32bit |-> is_32bit]
        /\ ret' = LET older == _mac_platforms(version, arch, mac_ver, is_32bit)
                       newer == _mac_platforms(<<version[1], version[2] + 1>>, arch, mac_ver, is_32bit)
                   IN  IF older.exc # "" THEN older
                       ELSE IF newer.exc # "" THEN newer
                       ELSE Ok(<<older.val, newer.val>>)

\* platforms(version, arch) of pep425/_mac.py, likewise.
ModPlatformsStepCall ==
    /\ op = "init"
    /\ \E version \in MacVersions, arch \in Archs \cup {None},
          mac_ver \in MacVers, is_32bit \in BOOLEAN :
        /\ op' = "platforms,platforms"
        /\ args' = [version |-> version, next_version |-> <<version[1], version[2] + 1>>,
                    arch |-> arch, mac_ver |-> mac_ver, is_32bit |-> is_32bit]
        /\ ret' = LET older == platforms(version, arch, mac_ver, is_32bit)
                       newer == platforms(<<version[1], version[2] + 1>>, arch, mac_ver, is_32bit)
                   IN  IF older.exc # "" THEN older
                       ELSE IF newer.exc # "" THEN newer
                       ELSE Ok(<<older.val, newer.val>>)

NextMac ==
    \/ MacBinaryFormatsCall
    \/ ModBinaryFormatsCall
    \/ MacPlatformsCall
    \/ ModPlatformsCall
    \/ MacPlatformsStepCall
    \/ ModPlatformsStepCall

SpecMac == Init /\ [][NextMac]_vars

SysTagsCall ==
    /\ op = "init"
    /\ \E host \in Hosts :
        /\ op' = "sys_tags"
        /\ args' = host
        /\ ret' = sys_tags(host)

NextSys == SysTagsCall

SpecSys == Init /\ [][NextSys]_vars

\* What gnu_get_libc_version() returns for glibc major.minor.
gnu_get_libc_version(version) == Str(version[1]) \o <<".">> \o Str(version[2])

\* The glibc of a host: None when the process is not linked to glibc.
Glibcs ==
    {None} \cup {gnu_get_libc_version(v) :
                    v \in {<<1, 9>>, <<2, 5>>, <<2, 12>>, <<2, 17>>, <<3, 0>>}}

\* The (major, minimum_minor) pairs asked of the glibc check.
GlibcRequests == {<<1, 0>>, <<2, 0>>, <<2, 5>>, <<2, 12>>, <<2, 18>>, <<3, 0>>}

\* The _manylinux module of a host: absent, or present with any of the two
\* *_compatible attributes set to a truth value.
ManylinuxModules ==
    {NoModule} \cup
    {[present |-> TRUE, attrs |-> f] :
        f \in UNION {[D -> BOOLEAN] :
                        D \in SUBSET {S_manylinux2010 \o S__compatible,
                                      S_manylinux1 \o S__compatible}}}

\* What distutils.util.get_platform() returns on the Linux hosts.
LinuxPlatforms ==
    {<<"l","i","n","u","x","-","x","8","6","_","6","4">>,
     <<"l","i","n","u","x","-","i","6","8","6">>,
     <<"l","i","n","u","x","-","a","a","r","c","h","6","4">>}

LinuxPlatformsCall ==
    /\ op = "init"
    /\ \E is_32bit \in BOOLEAN, get_platform \in LinuxPlatforms,
          manylinux \in ManylinuxModules, glibc \in Glibcs :
        /\ op' = "_linux_platforms"
        /\ args' = [is_32bit |-> is_32bit, get_platform |-> get_platform,
                    manylinux |-> manylinux, glibc |-> glibc]
        /\ ret' = _linux_platforms(is_32bit, get_platform, manylinux, glibc)

HaveCompatibleGlibcCall ==
    /\ op = "init"
    /\ \E request \in GlibcRequests, glibc \in Glibcs :
        /\ op' = "_have_compatible_glibc"
        /\ args' = [major |-> request[1], minimum_minor |-> request[2], glibc |-> glibc]
        /\ ret' = _have_compatible_glibc(request[1], request[2], glibc)

\* _generic_platforms() where distutils.util.get_platform() returns what
\* it does on one of the hosts.
GenericPlatformsCall ==
    /\ op = "init"
    /\ \E get_platform \in {system.get_platform : system \in Systems} \cup LinuxPlatforms :
        /\ op' = "_generic_platforms"
        /\ args' = [get_platform |-> get_platform]
        /\ ret' = Ok(_generic_platforms(get_platform))

NextLinux == LinuxPlatformsCall \/ GenericPlatformsCall

SpecLinux == Init /\ [][NextLinux]_vars

IsManylinuxCompatibleCall ==
    /\ op = "init"
    /\ \E k \in 1..Len(manylinux_support),
          manylinux \in ManylinuxModules, glibc \in Glibcs :
        /\ op' = "_is_manylinux_compatible"
        /\ args' = [name |-> manylinux_support[k][1],
                    glibc_version |-> manylinux_support[k][2],
                    manylinux |-> manylinux, glibc |-> glibc]
        /\ ret' = _is_manylinux_compatible(manylinux_support[k][1], manylinux_support[k][2],
                                           manylinux, glibc)

NextGlibc == HaveCompatibleGlibcCall \/ IsManylinuxCompatibleCall

SpecGlibc == Init /\ [][NextGlibc]_vars

\* The versions, platform lists, ABIs and interpreter tags the tag
\* generators are called with.
GenVersions == {<<major, minor>> : major \in {2, 3}, minor \in 0..MaxGenMinor}

PlatformList(n) == [k \in 1..n |-> <<"p","l","a","t">> \o Str(k)]

PlatformLists == {PlatformList(n) : n \in 0..MaxPlats}

GenAbis == {<<"c","p","3","3","m">>, <<"a","b","i">>, S_abi3, S_none, <<"N","o","n","e">>}

GenInterpreters == {<<"c","p","3","3">>, <<"s","i","l","l","y","w","a","l","k","3","3">>}

\* _cpython_tags with the interpreter tag sys_tags passes it.
CPythonTagsCall ==
    /\ op = "init"
    /\ \E py_version \in GenVersions, abi \in GenAbis, plats \in PlatformLists :
        /\ op' = "_cpython_tags"
        /\ args' = [py_version |-> py_version,
                    interpreter |-> _cpython_interpreter(py_version),
                    abi |-> abi, platforms |-> plats]
        /\ ret' = Ok(_cpython_tags(py_version, _cpython_interpreter(py_version), abi, plats))

PyPyTagsCall ==
    /\ op = "init"
    /\ \E py_version \in GenVersions, abi \in GenAbis, plats \in PlatformLists :
        /\ op' = "_pypy_tags"
        /\ args' = [py_version |-> py_version,
                    interpreter |-> _pypy_interpreter(py_version[1], <<6, 0>>),
                    abi |-> abi, platforms |-> plats]
        /\ ret' = Ok(_pypy_tags(py_version, _pypy_interpreter(py_version[1], <<6, 0>>),
                                abi, plats))

GenericTagsCall ==
    /\ op = "init"
    /\ \E interpreter \in GenInterpreters, py_version \in GenVersions,
          abi \in GenAbis, plats \in PlatformLists :
        /\ op' = "_generic_tags"
        /\ args' = [interpreter |-> interpreter, py_version |-> py_version,
                    abi |-> abi, platforms |-> plats]
        /\ ret' = Ok(_generic_tags(interpreter, py_version, abi, plats))

IndependentTagsCall ==
    /\ op = "init"
    /\ \E interpreter \in GenInterpreters, py_version \in GenVersions,
          plats \in PlatformLists :
        /\ op' = "_independent_tags"
        /\ args' = [interpreter |-> interpreter, py_version |-> py_version,
                    platforms |-> plats]
        /\ ret' = Ok(_independent_tags(interpreter, py_version, plats))

NextGen ==
    \/ CPythonTagsCall
    \/ PyPyTagsCall
    \/ GenericTagsCall
    \/ IndependentTagsCall

SpecGen == Init /\ [][NextGen]_vars

Next == NextParse \/ NextMac \/ NextSys \/ NextLinux \/ NextGlibc \/ NextGen

Spec == Init /\ [][Next]_vars

-----------------------------------------------------------------------------
(* What the claims are stated with.  These describe the expected results   *)
(* by position in the text, not by the operators above.                    *)

Dashes(s) == {k \in 1..Len(s) : s[k] = "-"}

NumDash(s) == Cardinality(Dashes(s))

HasNoSeparator(s) == \A k \in 1..Len(s) : s[k] # "-" /\ s[k] # "."

\* The dot-separated alternatives of a segment: its maximal dot-free pieces.
Alternatives(seg) ==
    {SubSeq(seg, i, j) : <<i, j>> \in
        {w \in (1..(Len(seg) + 1)) \X (0..Len(seg)) :
            /\ w[1] <= w[2] + 1
            /\ \A k \in w[1]..w[2] : seg[k] # "."
            /\ (w[1] = 1 \/ seg[w[1] - 1] = ".")
            /\ (w[2] = Len(seg) \/ seg[w[2] + 1] = ".")}}

\* The three segments of a text with exactly two dashes.
Segments(s) ==
    LET d1 == Min(Dashes(s))
        d2 == Max(Dashes(s))
    IN  <<SubSeq(s, 1, d1 - 1), SubSeq(s, d1 + 1, d2 - 1), SubSeq(s, d2 + 1, Len(s))>>

\* The last component of a path.
Basename(path) ==
    LET seps == {k \in 1..Len(path) : path[k] = "/"}
    IN  IF seps = {} THEN path ELSE SubSeq(path, Max(seps) + 1, Len(path))

Dirname(path) == SubSeq(path, 1, Len(path) - Len(Basename(path)))

\* A final component name-version-I-A-P.ext: a stem of at least five
\* dash-delimited fields, then the dot of the extension.
HasWheelForm(path) ==
    LET comp == Basename(path)
        dots == {k \in 1..Len(comp) : comp[k] = "."}
    IN  /\ dots # {}
        /\ NumDash(SubSeq(comp, 1, Max(dots) - 1)) >= 4

WheelStem(path) ==
    LET comp == Basename(path)
        dots == {k \in 1..Len(comp) : comp[k] = "."}
    IN  SubSeq(comp, 1, Max(dots) - 1)

\* The last three dash-delimited fields of a stem, as one text I-A-P.
LastThreeFields(stem) ==
    LET d == CHOOSE k \in Dashes(stem) :
                 NumDash(SubSeq(stem, k + 1, Len(stem))) = 2
    IN  SubSeq(stem, d + 1, Len(stem))

(* C4: for a text with exactly two dashes, parse_tag returns exactly the   *)
(* cross-product of the dot-separated alternatives of its three segments,  *)
(* as a set of Tags.                                                       *)
C4_ParseTagCrossProduct ==
    (op = "parse_tag" /\ NumDash(args.tag) = 2) =>
        /\ ret.exc = ""
        /\ ret.val = {Tag(i, a, p) : i \in Alternatives(Segments(args.tag)[1]),
                                     a \in Alternatives(Segments(args.tag)[2]),
                                     p \in Alternatives(Segments(args.tag)[3])}

C4_Witness ==
    /\ op = "parse_tag"
    /\ NumDash(args.tag) = 2
    /\ ret.exc = ""
    /\ Cardinality(ret.val) = 4

(* C5: round trip.  For fields with neither "-" nor ".", in any letter     *)
(* case, parse_tag(str(Tag(i, a, p))) is the one-element set {Tag(i,a,p)}. *)
C5_RoundTrip ==
    (/\ op = "parse_tag(str(Tag))"
     /\ HasNoSeparator(args.interpreter)
     /\ HasNoSeparator(args.abi)
     /\ HasNoSeparator(args.platform)) =>
        /\ ret.exc = ""
        /\ ret.val = {Tag(args.interpreter, args.abi, args.platform)}

C5_Witness ==
    /\ op = "parse_tag(str(Tag))"
    /\ args.interpreter = <<"B">>
    /\ args.abi = <<"a">>
    /\ HasNoSeparator(args.platform)
    /\ ret.exc = ""
    /\ ret.val = {<<(<<"b">>), (<<"a">>), lower(args.platform)>>}

(* C6: parse_tag raises exactly when the text does not split on "-" into   *)
(* three segments, that is when it does not hold exactly two dashes; when  *)
(* it raises it returns no tag set.                                        *)
C6_ParseTagArity ==
    op = "parse_tag" =>
        /\ (ret.exc # "") <=> (NumDash(args.tag) # 2)
        /\ (ret.exc # "") => ret.val = <<>>

C6_Witness ==
    /\ op = "parse_tag"
    /\ NumDash(args.tag) = 3
    /\ ret.exc = "ValueError"

(* C7: for a path whose last component is name-version-I-A-P.ext,          *)
(* parse_wheel_tag returns parse_tag of the last three dash-delimited      *)
(* fields of the stem, whatever the directories and the extension.         *)
C7_WheelTagFromTheRight ==
    (op = "parse_wheel_tag" /\ HasWheelForm(args.path)) =>
        ret = parse_tag(LastThreeFields(WheelStem(args.path)))

C7_Witness ==
    /\ op = "parse_wheel_tag"
    /\ HasWheelForm(args.path)
    /\ NumDash(Dirname(args.path)) > 0
    /\ ret.exc = ""
    /\ ret.val # {}

(* C8: parse_wheel_tag raises whenever the stem of the file name (the path *)
(* without its directories and its extension) has fewer than four          *)
(* dash-delimited fields.                                                  *)
C8_ShortStemRaises ==
    (op = "parse_wheel_tag" /\ NumDash(splitext_root(Basename(args.path))) < 3) =>
        ret.exc # ""

\* The compatibility table of the binary formats, by (major, minor).
FormatsTable(version, arch) ==
    LET major == version[1]
        minor == version[2]
        atLeast_10_4 == major > 10 \/ (major = 10 /\ minor >= 4)
        atMost_10_5  == major < 10 \/ (major = 10 /\ minor <= 5)
        atMost_10_6  == major < 10 \/ (major = 10 /\ minor <= 6)
    IN  CASE arch = S_x86_64 ->
                IF atLeast_10_4
                THEN <<S_x86_64, S_intel, S_fat64, S_fat32, S_universal>>
                ELSE <<>>
          [] arch = S_i386 ->
                IF atLeast_10_4
                THEN <<S_i386, S_intel, S_fat32, S_fat, S_universal>>
                ELSE <<>>
          [] arch = S_ppc64 ->
                IF atLeast_10_4 /\ atMost_10_5
                THEN <<S_ppc64, S_fat64, S_universal>>
                ELSE <<>>
          [] arch = S_ppc ->
                IF atMost_10_6
                THEN <<S_ppc, S_fat32, S_fat, S_universal>>
                ELSE <<>>
          [] OTHER -> <<arch, S_universal>>

\* For each minor from `minor` down to 0, "macosx_{major}_{m}_{f}" for each
\* format f of the table for ((major, m), arch), in format order.
RECURSIVE PlatformsTable(_, _, _)
PlatformsTable(major, minor, arch) ==
    IF minor < 0
    THEN <<>>
    ELSE [k \in 1..Len(FormatsTable(<<major, minor>>, arch)) |->
             S_macosx \o <<"_">> \o Str(major) \o <<"_">> \o Str(minor) \o <<"_">>
                      \o FormatsTable(<<major, minor>>, arch)[k]]
         \o PlatformsTable(major, minor - 1, arch)

(* C9: for every (major, minor) version and every cpu_arch, the list of    *)
(* binary formats is the one of the compatibility table; in the excluded   *)
(* cases it is empty, without "universal".                                 *)
C9_BinaryFormatsTable ==
    op \in {"_mac_binary_formats", "binary_formats"} =>
        /\ ret.exc = ""
        /\ ret.val = FormatsTable(args.version, args.cpu_arch)

C9_Witness ==
    /\ op = "_mac_binary_formats"
    /\ args.cpu_arch = S_ppc
    /\ args.version = <<10, 6>>
    /\ ret.val = <<S_ppc, S_fat32, S_fat, S_universal>>

(* C10: with both version and arch supplied, the macOS platform list is,   *)
(* for each minor from the given one down to 0, the macosx strings of the  *)
(* binary formats of the supplied arch, whatever the host reports; for     *)
(* both pep425._mac_platforms and pep425/_mac.py platforms.                *)
C10_PlatformsOfSuppliedArch ==
    (/\ op \in {"_mac_platforms", "platforms"}
     /\ args.version # NoVersion
     /\ args.arch # None) =>
        /\ ret.exc = ""
        /\ ret.val = PlatformsTable(args.version[1], args.version[2], args.arch)

\* The sequence holds no element twice.
NoRepeat(seq) ==
    \A i \in 1..Len(seq), j \in 1..Len(seq) : i # j => seq[i] # seq[j]

Last(seq) == seq[Len(seq)]

\* The platform list of a host, chosen by its operating system.
PlatformsByOS(host) ==
    CASE host.system = S_Darwin ->
             _mac_platforms(NoVersion, None, host.mac_ver, host.is_32bit).val
      [] host.system = S_Linux ->
             _linux_platforms(host.is_32bit, host.get_platform,
                              host.manylinux, host.glibc).val
      [] OTHER -> _generic_platforms(host.get_platform)

\* The interpreter tag, the ABI and the family generator's sequence of a
\* host, chosen by the short name of its interpreter.
FamilyByName(host, plats) ==
    LET short == _interpreter_name(host.python_implementation)
        v     == host.version_info
    IN  CASE short = S_cp ->
                 [interpreter |-> _cpython_interpreter(v),
                  abi  |-> _cpython_abi(v, host.config).val,
                  tags |-> _cpython_tags(v, _cpython_interpreter(v),
                                         _cpython_abi(v, host.config).val, plats)]
          [] short = S_pp ->
                 [interpreter |-> _pypy_interpreter(v[1], host.pypy_version_info),
                  abi  |-> _generic_abi(host.config),
                  tags |-> _pypy_tags(v, _pypy_interpreter(v[1], host.pypy_version_info),
                                      _generic_abi(host.config), plats)]
          [] OTHER ->
                 [interpreter |-> _generic_interpreter(short, v, host.config).val,
                  abi  |-> _generic_abi(host.config),
                  tags |-> _generic_tags(_generic_interpreter(short, v, host.config).val,
                                         v, _generic_abi(host.config), plats)]

(* C1: the sequence sys_tags yields holds no Tag twice, for every family,  *)
(* version, ABI and duplicate-free platform list.                          *)
C1_NoTagTwice ==
    (op = "sys_tags" /\ ret.exc = "" /\ NoRepeat(PlatformsByOS(args))) =>
        NoRepeat(ret.val)

(* C2 as claimed: for every version, minor 0 included, the last tag        *)
(* sys_tags yields is Tag("py{major}0", "none", "any").                    *)
C2_LastTagAsClaimed ==
    (op = "sys_tags" /\ ret.exc = "") =>
        Last(ret.val) = Tag(S_py \o Str(args.version_info[1]) \o <<"0">>, S_none, S_any)

(* C2 as amended: the last tag sys_tags yields is                          *)
(* Tag("py{major}0", "none", "any") when minor >= 1, and                   *)
(* Tag("py{major}", "none", "any") when minor = 0.                         *)
C2_LastTag ==
    (op = "sys_tags" /\ ret.exc = "") =>
        Last(ret.val) =
            IF args.version_info[2] >= 1
            THEN Tag(S_py \o Str(args.version_info[1]) \o <<"0">>, S_none, S_any)
            ELSE Tag(S_py \o Str(args.version_info[1]), S_none, S_any)

C2_Witness ==
    /\ op = "sys_tags"
    /\ ret.exc = ""
    /\ args.version_info = <<3, 3>>
    /\ args.system = S_Linux
    /\ Last(ret.val) = <<<<"p","y","3","0">>, <<"n","o","n","e">>, <<"a","n","y">>>>

(* C3: sys_tags yields exactly the sequence of the family generator chosen *)
(* by the interpreter's short name, over the platform list chosen by the   *)
(* operating system (a single platform unless Darwin or Linux), followed   *)
(* by the _independent_tags sequence; with a non-empty platform list the   *)
(* first tag is Tag(interpreter, abi, platforms[0]).                       *)
C3_FamilyThenIndependent ==
    (op = "sys_tags" /\ ret.exc = "") =>
        LET plats  == PlatformsByOS(args)
            family == FamilyByName(args, plats)
        IN  /\ ret.val = family.tags
                         \o _independent_tags(family.interpreter, args.version_info, plats)
            /\ plats # <<>> =>
                   ret.val[1] = Tag(family.interpreter, family.abi, plats[1])
            /\ args.system \notin {S_Darwin, S_Linux} => Len(plats) = 1

C3_Witness ==
    /\ op = "sys_tags"
    /\ ret.exc = ""
    /\ args.python_implementation = <<"P","y","P","y">>
    /\ args.system = S_Darwin
    /\ args.version_info = <<3, 3>>
    /\ ret.val[1] = <<<<"p","p","3","6","0">>,
                      <<"p","y","p","y","3","_","6","0">>,
                      <<"m","a","c","o","s","x","_","1","0","_","5","_","x","8","6","_","6","4">>>>

\* The version a _mac_platforms call works with: the one supplied, else the
\* first two numbers of the release the host reports.
VersionUsed(a) ==
    IF a.version # NoVersion
    THEN a.version
    ELSE LET pieces == split(a.mac_ver[1], ".")
         IN  <<int(pieces[1]), int(pieces[2])>>

\* The architecture a _mac_platforms call works with: the one supplied, else
\* the host's, collapsed to ppc or i386 on a 32-bit interpreter.
ArchUsed(a) ==
    IF a.arch # None
    THEN a.arch
    ELSE IF ~a.is_32bit
    THEN a.mac_ver[2]
    ELSE IF Len(a.mac_ver[2]) >= 3 /\ SubSeq(a.mac_ver[2], 1, 3) = <<"p","p","c">>
    THEN <<"p","p","c">>
    ELSE <<"i","3","8","6">>

\* "macosx_{major}_{minor}_"
MacPrefix(major, minor) ==
    <<"m","a","c","o","s","x","_">> \o Str(major) \o <<"_">> \o Str(minor) \o <<"_">>

\* The minor releases of `version`'s major, up to its own, for which the
\* compatibility table has formats for arch.
MinorsWithFormats(version, arch) ==
    {m \in 0..version[2] : FormatsTable(<<version[1], m>>, arch) # <<>>}

(* C11 as claimed: whenever the macOS platform list of _mac_platforms is   *)
(* non-empty, its first entry is "macosx_{major}_{minor}_" of the given    *)
(* version followed by a format.                                           *)
C11_FirstEntryNamesGivenVersion ==
    (/\ op = "_mac_platforms"
     /\ ret.exc = ""
     /\ ret.val # <<>>) =>
        \E f \in {FormatsTable(VersionUsed(args), ArchUsed(args))[k] :
                     k \in 1..Len(FormatsTable(VersionUsed(args), ArchUsed(args)))} :
            ret.val[1] = MacPrefix(VersionUsed(args)[1], VersionUsed(args)[2]) \o f

(* C11 as amended: the list of _mac_platforms is non-empty exactly when    *)
(* the arch has binary formats at some minor release up to the given one;  *)
(* its first entry is then "macosx_{major}_{k}_{arch}" for the highest     *)
(* such minor k, which is the given minor exactly when the arch has        *)
(* formats at the given version itself.                                    *)
C11_FirstEntryNamesNearestVersion ==
    (op = "_mac_platforms" /\ ret.exc = "") =>
        LET version == VersionUsed(args)
            arch    == ArchUsed(args)
            minors  == MinorsWithFormats(version, arch)
        IN  /\ (ret.val # <<>>) <=> (minors # {})
            /\ minors # {} =>
                   ret.val[1] = MacPrefix(version[1], Max(minors)) \o arch
            /\ (minors # {} /\ FormatsTable(version, arch) # <<>>) =>
                   ret.val[1] = MacPrefix(version[1], version[2]) \o arch

\* ppc on 10.7: no formats at 10.7, so the list starts at 10.6.
C11_Witness ==
    /\ op = "_mac_platforms"
    /\ args.version = <<10, 7>>
    /\ args.arch = <<"p","p","c">>
    /\ ret.exc = ""
    /\ ret.val[1] = <<"m","a","c","o","s","x","_","1","0","_","6","_","p","p","c">>

\* a is b's tail.
IsSuffix(a, b) ==
    /\ Len(a) <= Len(b)
    /\ a = SubSeq(b, Len(b) - Len(a) + 1, Len(b))

(* C19: for every major, minor m and arch, the macOS platform list for     *)
(* (major, m) is a suffix of the list for (major, m + 1): what an older    *)
(* minor release accepts, the next one accepts in the same order, after    *)
(* its newer entries; for _mac_platforms and for pep425/_mac.py platforms. *)
C19_OlderListIsSuffix ==
    op \in {"_mac_platforms,_mac_platforms", "platforms,platforms"} =>
        /\ ret.exc = ""
        /\ IsSuffix(ret.val[1], ret.val[2])

\* x86_64 on 10.4 and 10.5: five entries, then the same five after five
\* newer ones.
C19_Witness ==
    /\ op = "_mac_platforms,_mac_platforms"
    /\ args.version = <<10, 4>>
    /\ args.arch = <<"x","8","6","_","6","4">>
    /\ ret.exc = ""
    /\ Len(ret.val[1]) = 5
    /\ Len(ret.val[2]) = 10
    /\ ret.val[2][6] = ret.val[1][1]
    /\ ret.val[2][1] # ret.val[1][1]

\* The reported Linux platform with "." and "-" turned into "_", rewritten
\* to linux_i686 for a 32-bit interpreter on linux_x86_64.
NormalizedLinux(a) ==
    LET n == [k \in 1..Len(a.get_platform) |->
                 IF a.get_platform[k] \in {".", "-"} THEN "_" ELSE a.get_platform[k]]
    IN  IF a.is_32bit /\ n = <<"l","i","n","u","x","_","x","8","6","_","6","4">>
        THEN <<"l","i","n","u","x","_","i","6","8","6">>
        ELSE n

\* The platform string of a tier for L = linux_X: {name}_X.
TierPlatform(name, L) == name \o SubSeq(L, 6, Len(L))

\* The outcome of the compatibility probe on a tier, on the host of a call.
ProbeAccepts(a, name, glibc_version) ==
    _is_manylinux_compatible(name, glibc_version, a.manylinux, a.glibc).val

(* C12: _linux_platforms returns the platform string of the first tier the *)
(* probe accepts among (manylinux2010, manylinux1), then the strings of    *)
(* every lower tier whether accepted or not, then the normalized platform  *)
(* L last; exactly [L] if no tier is accepted.  L is linux_i686 for a      *)
(* 32-bit interpreter on a reported linux_x86_64; nothing else is rewritten.*)
C12_LinuxTierChain ==
    op = "_linux_platforms" =>
        LET L     == NormalizedLinux(args)
            m2010 == <<"m","a","n","y","l","i","n","u","x","2","0","1","0">>
            m1    == <<"m","a","n","y","l","i","n","u","x","1">>
        IN  /\ ret.exc = ""
            /\ ret.val =
                   IF ProbeAccepts(args, m2010, <<2, 12>>)
                   THEN <<TierPlatform(m2010, L), TierPlatform(m1, L), L>>
                   ELSE IF ProbeAccepts(args, m1, <<2, 5>>)
                   THEN <<TierPlatform(m1, L), L>>
                   ELSE <<L>>

\* manylinux2010 accepted by the module although manylinux1 is rejected, on
\* a 32-bit interpreter on linux_x86_64.
C12_Witness ==
    /\ op = "_linux_platforms"
    /\ args.is_32bit
    /\ args.get_platform = <<"l","i","n","u","x","-","x","8","6","_","6","4">>
    /\ args.manylinux.present
    /\ DOMAIN args.manylinux.attrs = {S_manylinux2010 \o S__compatible,
                                       S_manylinux1 \o S__compatible}
    /\ args.manylinux.attrs[S_manylinux2010 \o S__compatible]
    /\ ~args.manylinux.attrs[S_manylinux1 \o S__compatible]
    /\ ret.val = << <<"m","a","n","y","l","i","n","u","x","2","0","1","0","_","i","6","8","6">>,
                    <<"m","a","n","y","l","i","n","u","x","1","_","i","6","8","6">>,
                    <<"l","i","n","u","x","_","i","6","8","6">> >>

\* The (major, minor) pair of a glibc version string.
GlibcPair(glibc) ==
    LET pieces == split(glibc, ".")
    IN  <<int(pieces[1]), int(pieces[2])>>

(* C13: _have_compatible_glibc(major, minor) returns True exactly when the *)
(* host's glibc version (M, m) >= (major, minor) as a pair, also when M is *)
(* greater than major, and False when the process is not linked to glibc.  *)
C13_GlibcAtLeast ==
    op = "_have_compatible_glibc" =>
        /\ ret.exc = ""
        /\ ret.val = (/\ args.glibc # None
                      /\ LET host == GlibcPair(args.glibc)
                         IN  \/ host[1] > args.major
                             \/ host[1] = args.major /\ host[2] >= args.minimum_minor)

\* "cp{major}{minor}"
CpName(major, minor) == <<"c","p">> \o Str(major) \o Str(minor)

(* C14: _cpython_tags yields, and nothing else: Tag(cp{major}{minor}, abi, *)
(* p) for each platform p in list order; then the same with "abi3"; then   *)
(* with "none"; then for each k from minor-1 down to 2,                    *)
(* Tag(cp{major}{k}, "abi3", p) for each p.  The platform varies fastest   *)
(* and there is no block for k <= 1.                                       *)
C14_CPythonTagsOrder ==
    op = "_cpython_tags" =>
        LET n     == Len(args.platforms)
            major == args.py_version[1]
            minor == args.py_version[2]
            older == IF minor >= 3 THEN minor - 2 ELSE 0
        IN  /\ ret.exc = ""
            /\ Len(ret.val) = (3 + older) * n
            /\ \A i \in 1..Len(ret.val) :
                   LET block == (i - 1) \div n
                       p     == args.platforms[((i - 1) % n) + 1]
                   IN  ret.val[i] =
                           CASE block = 0 -> Tag(CpName(major, minor), args.abi, p)
                             [] block = 1 -> Tag(CpName(major, minor), <<"a","b","i","3">>, p)
                             [] block = 2 -> Tag(CpName(major, minor), <<"n","o","n","e">>, p)
                             [] OTHER     -> Tag(CpName(major, minor - 1 - (block - 3)),
                                                 <<"a","b","i","3">>, p)

\* (3, 4) on two platforms: ten tags, ending with the cp32-abi3 block.
C14_Witness ==
    /\ op = "_cpython_tags"
    /\ args.py_version = <<3, 4>>
    /\ args.abi = <<"c","p","3","3","m">>
    /\ Len(args.platforms) = 2
    /\ Len(ret.val) = 10
    /\ ret.val[7] = << <<"c","p","3","3">>, <<"a","b","i","3">>, <<"p","l","a","t","1">> >>
    /\ ret.val[10] = << <<"c","p","3","2">>, <<"a","b","i","3">>, <<"p","l","a","t","2">> >>

\* The j-th version string of py{major}{minor}, py{major}, py{major}{minor-1},
\* ..., py{major}0.
PyName(major, minor, j) ==
    CASE j = 1 -> <<"p","y">> \o Str(major) \o Str(minor)
      [] j = 2 -> <<"p","y">> \o Str(major)
      [] OTHER -> <<"p","y">> \o Str(major) \o Str(minor - (j - 2))

(* C15: for a platform list of length n, _independent_tags yields exactly  *)
(* (minor+2)*n + 1 + (minor+2) tags: Tag(version, "none", p) for each      *)
(* version string in the order py{major}{minor}, py{major},                *)
(* py{major}{minor-1}, ..., py{major}0 and each platform p (platform       *)
(* fastest); then Tag(interpreter, "none", "any"); then                    *)
(* Tag(version, "none", "any") for each version string in the same order.  *)
(* So every tag with platform "any" comes after every platform-specific    *)
(* tag.                                                                    *)
C15_IndependentTagsOrder ==
    op = "_independent_tags" =>
        LET n     == Len(args.platforms)
            major == args.py_version[1]
            minor == args.py_version[2]
            head  == (minor + 2) * n
            none  == <<"n","o","n","e">>
            any   == <<"a","n","y">>
        IN  /\ ret.exc = ""
            /\ Len(ret.val) = (minor + 2) * n + 1 + (minor + 2)
            /\ \A i \in 1..Len(ret.val) :
                   ret.val[i] =
                       IF i <= head
                       THEN Tag(PyName(major, minor, ((i - 1) \div n) + 1), none,
                                args.platforms[((i - 1) % n) + 1])
                       ELSE IF i = head + 1
                       THEN Tag(args.interpreter, none, any)
                       ELSE Tag(PyName(major, minor, i - head - 1), none, any)
            /\ \A i \in 1..Len(ret.val), j \in 1..Len(ret.val) :
                   (ret.val[i][3] = any /\ ret.val[j][3] # any) => j < i

\* (3, 0) on two platforms: 2*2 + 1 + 2 = 7 tags, py3 after py30.
C15_Witness ==
    /\ op = "_independent_tags"
    /\ args.py_version = <<3, 0>>
    /\ args.interpreter = <<"c","p","3","3">>
    /\ Len(args.platforms) = 2
    /\ Len(ret.val) = 7
    /\ ret.val[4] = << <<"p","y","3">>, <<"n","o","n","e">>, <<"p","l","a","t","2">> >>
    /\ ret.val[5] = << <<"c","p","3","3">>, <<"n","o","n","e">>, <<"a","n","y">> >>
    /\ ret.val[7] = << <<"p","y","3">>, <<"n","o","n","e">>, <<"a","n","y">> >>

(* C16: _generic_tags yields Tag(interpreter, abi, p) for each platform p, *)
(* followed by Tag(interpreter, "none", p) for each p exactly when abi is  *)
(* not "none", and nothing else; so it never yields the same Tag twice,    *)
(* whatever the ABI string, "none" in any letter case included.            *)
C16_GenericTagsNoRepeat ==
    op = "_generic_tags" =>
        LET none == <<"n","o","n","e">>
            first  == [k \in 1..Len(args.platforms) |->
                          Tag(args.interpreter, args.abi, args.platforms[k])]
            second == [k \in 1..Len(args.platforms) |->
                          Tag(args.interpreter, none, args.platforms[k])]
        IN  /\ ret.exc = ""
            /\ ret.val = IF args.abi # none THEN first \o second ELSE first
            /\ NoRepeat(ret.val)

(* C18: every Tag with ABI "abi3" that _cpython_tags yields for a version  *)
(* older than the running one names a CPython that has the stable ABI,     *)
(* 3.2 or later; for no input version, major 2 included, is there a tag    *)
(* such as cp26-abi3-<platform>.                                           *)
C18_Abi3OnlyFrom32 ==
    op = "_cpython_tags" =>
        \A i \in 1..Len(ret.val) :
            (/\ ret.val[i][2] = <<"a","b","i","3">>
             /\ ret.val[i][1] # args.interpreter) =>
                \E k \in 2..args.py_version[2] : ret.val[i][1] = CpName(3, k)

\* The host is CPython-like and its sysconfig has no SOABI.
CPythonWithoutSoabi(host) ==
    /\ host.python_implementation = <<"C","P","y","t","h","o","n">>
    /\ host.config.SOABI = None

(* C17 as claimed: on a CPython-like host without SOABI, sys_tags fails    *)
(* with an unsupported-ABI error and yields no tags.                       *)
C17_NoSoabiFails ==
    (op = "sys_tags" /\ CPythonWithoutSoabi(args)) =>
        /\ ret.exc = "UnsupportedAbiError"
        /\ ret.val = <<>>

(* C17 as amended: on a CPython-like host without SOABI whose platform     *)
(* list resolves, sys_tags does not fail: it yields its tags with the ABI  *)
(* "cp{major}{minor}" followed by "d" if Py_DEBUG is set, "m" if           *)
(* WITH_PYMALLOC is set and "u" if Py_UNICODE_SIZE is 4, starting with     *)
(* Tag(cp{major}{minor}, that ABI, p) for each platform p in list order.   *)
C17_NoSoabiDerivesAbi ==
    (/\ op = "sys_tags"
     /\ CPythonWithoutSoabi(args)
     /\ sys_platforms(args).exc = "") =>
        LET major == args.version_info[1]
            minor == args.version_info[2]
            plats == PlatformsByOS(args)
            abi   == CpName(major, minor)
                     \o (IF args.config.Py_DEBUG # 0 THEN <<"d">> ELSE <<>>)
                     \o (IF args.config.WITH_PYMALLOC # 0 THEN <<"m">> ELSE <<>>)
                     \o (IF args.config.Py_UNICODE_SIZE = 4 THEN <<"u">> ELSE <<>>)
        IN  /\ ret.exc = ""
            /\ ret.val # <<>>
            /\ Len(ret.val) >= Len(plats)
            /\ \A k \in 1..Len(plats) :
                   ret.val[k] = Tag(CpName(major, minor), abi, plats[k])

\* A debug, pymalloc CPython 3.3 without SOABI on Windows: ABI cp33dm.
C17_Witness ==
    /\ op = "sys_tags"
    /\ CPythonWithoutSoabi(args)
    /\ args.config.Py_DEBUG = 1
    /\ args.config.WITH_PYMALLOC = 1
    /\ args.version_info = <<3, 3>>
    /\ args.system = S_Windows
    /\ ret.exc = ""
    /\ ret.val[1] = << <<"c","p","3","3">>, <<"c","p","3","3","d","m">>,
                       <<"w","i","n","_","a","m","d","6","4">> >>

=============================================================================
